---- MODULE Spec2Model ----
(***************************************************************************)
(* The interactive websocket client of examples/websocket/client.py:      *)
(* start_client (name prompt, handshake, stdin watch), stdin_callback,    *)
(* the dispatch loop, and the event loop that __main__ runs forever.      *)
(*                                                                         *)
(* Strings are sequences of one-character strings, so that concatenation, *)
(* the line terminator and strip() are what the code computes.  The bytes *)
(* of the local input stream are integers (ASCII codes).                  *)
(***************************************************************************)
EXTENDS Integers, Sequences, FiniteSets, TLC

\* ------------------------------------------------------------------ bounds

\* Most bytes the local input stream holds before its end.
MaxStdin == 1
\* Most frames the server delivers in one session.
MaxFrames == 2

\* ----------------------------------------------------------------- strings

\* All sequences over S of length at most n.
SeqsUpTo(S, n) == UNION {[1..k -> S] : k \in 0..n}

\* The bytes the local input stream is made of: 'h' and the line terminator.
StdinBytes == {104, 10}

\* bytes.decode('utf-8') on the ASCII bytes used here.
DecodeByte(b) ==
  CASE b = 10 -> "\n"
    [] b = 104 -> "h"
    [] b = 101 -> "e"
    [] b = 108 -> "l"
    [] b = 111 -> "o"

Decode(bytes) == [i \in 1..Len(bytes) |-> DecodeByte(bytes[i])]

\* Length of the line BufferedReader.readline() returns from buf: up to and
\* including the first terminator, or everything that is left before the end
\* of the stream; 0 only at end of stream.
RECURSIVE LineLen(_)
LineLen(buf) ==
  IF buf = <<>> THEN 0
  ELSE IF Head(buf) = 10 THEN 1
  ELSE 1 + LineLen(Tail(buf))

ReadLine(buf) == SubSeq(buf, 1, LineLen(buf))

AfterLine(buf) == SubSeq(buf, LineLen(buf) + 1, Len(buf))

\* The characters str.strip() removes.
Whitespace == {" ", "\t", "\n", "\r"}

RECURSIVE LStrip(_)
LStrip(s) ==
  IF s # <<>> /\ Head(s) \in Whitespace THEN LStrip(Tail(s)) ELSE s

RECURSIVE RStrip(_)
RStrip(s) ==
  IF s # <<>> /\ s[Len(s)] \in Whitespace
  THEN RStrip(SubSeq(s, 1, Len(s) - 1))
  ELSE s

\* str.strip()
Strip(s) == RStrip(LStrip(s))

\* Print2 as string concatenation would give it: no separator.
Print2_NoSeparator(a, b) == a \o b

\* print(a, b): the arguments joined by the separator ' ' (one output line).
Print2(a, b) == a \o <<" ">> \o b

\* print(a)
Print1(a) == a

Str_Alice == <<"A", "l", "i", "c", "e">>
Str_Text == <<"T", "e", "x", "t", ":", " ">>
Str_Binary == <<"B", "i", "n", "a", "r", "y", ":", " ">>
Str_PongReceived ==
  <<"P", "o", "n", "g", " ", "r", "e", "c", "e", "i", "v", "e", "d">>
Str_ErrorDuringReceive ==
  <<"E", "r", "r", "o", "r", " ", "d", "u", "r", "i", "n", "g", " ",
    "r", "e", "c", "e", "i", "v", "e", " ">>
\* str(ws.exception()): whatever the session captured.
Str_Exception == <<"e", "x", "c">>
Str_ColonSpace == <<":", " ">>
Str_HiThere == <<" ", " ", "h", "i", " ", "t", "h", "e", "r", "e", " ", " ">>
Bytes_hello == <<104, 101, 108, 108, 111>>

\* ------------------------------------------------------------------ inputs

\* Operator names input() can return.
Names == {Str_Alice, <<"B">>}

\* Contents of the local input stream (after the name), up to its end.
StdinContents ==
  SeqsUpTo(StdinBytes, MaxStdin)
    \cup {Bytes_hello, Bytes_hello \o <<10>>, <<10, 104, 10>>}

Msg(t, d) == [type |-> t, data |-> d]

\* Payloads of inbound text frames: padded on both sides with whitespace
\* inside, padded on the right only, and whitespace only.
TextPayloads == {Str_HiThere, <<"x", "\n">>, <<"\t", " ">>}

\* What ws.receive() can return (aiohttp.WSMsgType).
Messages ==
  {Msg("TEXT", p) : p \in TextPayloads}
    \cup {Msg("BINARY", <<"x">>)}
    \cup {Msg(t, <<>>) : t \in {"PING", "PONG", "CLOSE", "ERROR", "CLOSED"}}

\* ------------------------------------------------------------------- state

VARIABLES
  pc,        \* where the start_client task is
  running,   \* the event loop is inside run_forever and not stopped
  watching,  \* stdin_callback is registered with loop.add_reader
  name,      \* the operator name
  stdin,     \* bytes of the local input stream not read yet
  consumed,  \* bytes of the local input stream already read
  inbound,   \* frames the transport delivered that receive() has not returned
  delivered, \* every frame the transport delivered, in order
  events     \* what the client did, in order

vars == <<pc, running, watching, name, stdin, consumed, inbound, delivered, events>>

Init ==
  /\ pc = "prompt"
  /\ running = TRUE
  /\ watching = FALSE
  /\ name = <<>>
  /\ stdin \in StdinContents
  /\ consumed = <<>>
  /\ inbound = <<>>
  /\ delivered = <<>>
  /\ events = <<>>

Ev(kind, what) == <<kind, what>>

\* ----------------------------------------------------------------- actions

\* name = input('Please enter your name: ')
Prompt ==
  /\ pc = "prompt"
  /\ running
  /\ \E n \in Names : name' = n
  /\ pc' = "connecting"
  /\ UNCHANGED <<running, watching, stdin, consumed, inbound, delivered, events>>

\* ws_connect returns; the stdin watch is registered and dispatch() starts,
\* suspending in its first ws.receive().
Connect ==
  /\ pc = "connecting"
  /\ running
  /\ watching' = TRUE
  /\ pc' = "recv"
  /\ UNCHANGED <<running, name, stdin, consumed, inbound, delivered, events>>

\* ws_connect raises: the exception ends the start_client task, which was
\* started with asyncio.Task(...) and is awaited by nobody; nothing catches
\* it, and nothing stops the loop that run_forever() runs.
ConnectFail ==
  /\ pc = "connecting"
  /\ running
  /\ pc' = "failed"
  /\ UNCHANGED <<running, watching, name, stdin, consumed, inbound, delivered, events>>

\* The transport delivers one more frame of the open session.
Deliver ==
  /\ running
  /\ pc \in {"recv", "closing"}
  /\ Len(delivered) < MaxFrames
  /\ \E m \in Messages :
       /\ inbound' = Append(inbound, m)
       /\ delivered' = Append(delivered, m)
  /\ UNCHANGED <<pc, running, watching, name, stdin, consumed, events>>

\* StdinCallback with end-of-stream not stopping the loop.
StdinCallback_NoStop ==
  /\ running
  /\ watching
  /\ LET line == Decode(ReadLine(stdin)) IN
       /\ stdin' = AfterLine(stdin)
       /\ consumed' = consumed \o ReadLine(stdin)
       /\ running' = running
       /\ IF line = <<>>
          THEN events' = Append(events, Ev("stop", "eof"))
          ELSE events' = Append(events,
                 Ev("send", Msg("TEXT", name \o Str_ColonSpace \o line)))
  /\ UNCHANGED <<pc, watching, name, inbound, delivered>>

\* StdinCallback sending the line without its terminator.
StdinCallback_DropsTerminator ==
  /\ running
  /\ watching
  /\ LET line == Decode(ReadLine(stdin)) IN
       /\ stdin' = AfterLine(stdin)
       /\ consumed' = consumed \o ReadLine(stdin)
       /\ IF line = <<>>
          THEN /\ running' = FALSE
               /\ events' = Append(events, Ev("stop", "eof"))
          ELSE /\ running' = running
               /\ events' = Append(events,
                    Ev("send", Msg("TEXT", name \o Str_ColonSpace \o RStrip(line))))
  /\ UNCHANGED <<pc, watching, name, inbound, delivered>>

\* stdin_callback, run by the loop when the local input is readable.
\* loop.stop() lets run_forever finish the batch of callbacks it is running
\* and then return.  stdin_callback is an I/O callback: the only callbacks
\* behind it in its batch are other I/O callbacks, and the dispatch task is
\* resumed through call_soon, in a later batch.  So no step of the client
\* follows the stop, and the loop is taken as stopped here.
StdinCallback ==
  /\ running
  /\ watching
  /\ LET line == Decode(ReadLine(stdin)) IN
       /\ stdin' = AfterLine(stdin)
       /\ consumed' = consumed \o ReadLine(stdin)
       /\ IF line = <<>>
          THEN /\ running' = FALSE
               /\ events' = Append(events, Ev("stop", "eof"))
          ELSE /\ running' = running
               /\ events' = Append(events,
                    Ev("send", Msg("TEXT", name \o Str_ColonSpace \o line)))
  /\ UNCHANGED <<pc, watching, name, inbound, delivered>>

\* Receive leaving the frame it returns in the queue.
Receive_KeepsFrame ==
  /\ pc = "recv"
  /\ running
  /\ inbound # <<>>
  /\ inbound' = inbound

\* msg = yield from ws.receive(): the dispatch loop resumes with the oldest
\* frame that was delivered.
Receive ==
  /\ pc = "recv"
  /\ running
  /\ inbound # <<>>
  /\ inbound' = Tail(inbound)

\* What one pass of the loop body appends to the record of what was done:
\* the frame received, then what the branch for its type does.
Handled(msg, done) == events' = events \o <<Ev("recv", msg)>> \o done

\* msg.type == TEXT: print('Text: ', msg.data.strip())
OnText ==
  /\ Receive
  /\ LET msg == Head(inbound) IN
       /\ msg.type = "TEXT"
       /\ Handled(msg, <<Ev("print", Print2(Str_Text, Strip(msg.data)))>>)
  /\ pc' = "recv"
  /\ UNCHANGED <<running, watching, name, stdin, consumed, delivered>>

\* msg.type == BINARY: print('Binary: ', msg.data)
OnBinary ==
  /\ Receive
  /\ LET msg == Head(inbound) IN
       /\ msg.type = "BINARY"
       /\ Handled(msg, <<Ev("print", Print2(Str_Binary, msg.data))>>)
  /\ pc' = "recv"
  /\ UNCHANGED <<running, watching, name, stdin, consumed, delivered>>

\* OnPing answering with two pongs.
OnPing_TwoPongs ==
  /\ Receive
  /\ LET msg == Head(inbound) IN
       /\ msg.type = "PING"
       /\ Handled(msg, <<Ev("send", Msg("PONG", <<>>)), Ev("send", Msg("PONG", <<>>))>>)
  /\ pc' = "recv"
  /\ UNCHANGED <<running, watching, name, stdin, consumed, delivered>>

\* msg.type == PING: ws.pong()
OnPing ==
  /\ Receive
  /\ LET msg == Head(inbound) IN
       /\ msg.type = "PING"
       /\ Handled(msg, <<Ev("send", Msg("PONG", <<>>))>>)
  /\ pc' = "recv"
  /\ UNCHANGED <<running, watching, name, stdin, consumed, delivered>>

\* msg.type == PONG: print('Pong received')
OnPong ==
  /\ Receive
  /\ LET msg == Head(inbound) IN
       /\ msg.type = "PONG"
       /\ Handled(msg, <<Ev("print", Print1(Str_PongReceived))>>)
  /\ pc' = "recv"
  /\ UNCHANGED <<running, watching, name, stdin, consumed, delivered>>

\* OnClose without the break: the loop goes back to receive().
OnClose_NoBreak ==
  /\ Receive
  /\ LET msg == Head(inbound) IN
       /\ msg.type = "CLOSE"
       /\ Handled(msg, <<Ev("send", Msg("CLOSE", <<>>))>>)
  /\ pc' = "recv"
  /\ UNCHANGED <<running, watching, name, stdin, consumed, delivered>>

\* OnClose suspending before the close frame is sent.
OnClose_SuspendsBeforeReply ==
  /\ Receive
  /\ LET msg == Head(inbound) IN
       /\ msg.type = "CLOSE"
       /\ Handled(msg, <<>>)
  /\ pc' = "closing"
  /\ UNCHANGED <<running, watching, name, stdin, consumed, delivered>>

\* msg.type == CLOSE: yield from ws.close().  close() sends the close frame
\* when it is called; whether the coroutine then returns at once or suspends
\* until a later loop iteration is the library's choice, so both happen.
OnClose ==
  /\ Receive
  /\ LET msg == Head(inbound) IN
       /\ msg.type = "CLOSE"
       /\ Handled(msg, <<Ev("send", Msg("CLOSE", <<>>))>>)
  /\ \/ pc' = "closing"
     \/ pc' = "done"
  /\ UNCHANGED <<running, watching, name, stdin, consumed, delivered>>

\* CloseReturn stopping the loop when start_client returns.
CloseReturn_StopsLoop ==
  /\ pc = "closing"
  /\ running
  /\ pc' = "done"
  /\ running' = FALSE
  /\ UNCHANGED <<watching, name, stdin, consumed, inbound, delivered, events>>

\* CloseReturn removing the stdin watch when the dispatch loop exits.
CloseReturn_RemovesWatch ==
  /\ pc = "closing"
  /\ running
  /\ pc' = "done"
  /\ watching' = FALSE
  /\ UNCHANGED <<running, name, stdin, consumed, inbound, delivered, events>>

\* ws.close() returns to dispatch, which breaks out of the loop; dispatch and
\* start_client return.  The stdin watch stays registered.
CloseReturn ==
  /\ pc = "closing"
  /\ running
  /\ pc' = "done"
  /\ UNCHANGED <<running, watching, name, stdin, consumed, inbound, delivered, events>>

\* msg.type == ERROR: print('Error during receive %s' % ws.exception()); break
OnError ==
  /\ Receive
  /\ LET msg == Head(inbound) IN
       /\ msg.type = "ERROR"
       /\ Handled(msg, <<Ev("print", Print1(Str_ErrorDuringReceive \o Str_Exception))>>)
  /\ pc' = "done"
  /\ UNCHANGED <<running, watching, name, stdin, consumed, delivered>>

\* msg.type == CLOSED: pass; break
OnClosed ==
  /\ Receive
  /\ LET msg == Head(inbound) IN
       /\ msg.type = "CLOSED"
       /\ Handled(msg, <<>>)
  /\ pc' = "done"
  /\ UNCHANGED <<running, watching, name, stdin, consumed, delivered>>

\* One pass of dispatch()'s while loop.
Dispatch ==
  \/ OnText
  \/ OnBinary
  \/ OnPing
  \/ OnPong
  \/ OnClose
  \/ OnError
  \/ OnClosed

\* loop.add_signal_handler(signal.SIGINT, loop.stop): an interrupt stops the
\* loop, at any point of the session.
Sigint ==
  /\ running
  /\ running' = FALSE
  /\ events' = Append(events, Ev("stop", "sigint"))
  /\ UNCHANGED <<pc, watching, name, stdin, consumed, inbound, delivered>>

Next ==
  \/ Prompt
  \/ Connect
  \/ ConnectFail
  \/ Deliver
  \/ StdinCallback
  \/ Dispatch
  \/ CloseReturn
  \/ Sigint

Spec == Init /\ [][Next]_vars

\* ------------------------------------------------- reading the event record

IsRecv(e) == e[1] = "recv"
IsRecvOf(e, t) == e[1] = "recv" /\ e[2].type = t
IsSendOf(e, t) == e[1] = "send" /\ e[2].type = t
IsPrint(e) == e[1] = "print"
IsStop(e) == e[1] = "stop"
IsStopBy(e, cause) == e[1] = "stop" /\ e[2] = cause

Idx == 1..Len(events)

Count(Test(_)) == Cardinality({i \in Idx : Test(events[i])})

\* The frames dispatch received, in order.
Recvs ==
  LET rs == SelectSeq(events, IsRecv)
  IN [i \in 1..Len(rs) |-> rs[i][2]]

\* The payloads of the text frames sent, in order.
TextSent ==
  LET ts == SelectSeq(events, LAMBDA e : IsSendOf(e, "TEXT"))
  IN [i \in 1..Len(ts) |-> ts[i][2].data]

\* The lines of a byte string: each ends with its terminator, except a last
\* one cut short by the end of the stream.
RECURSIVE Lines(_)
Lines(buf) ==
  IF buf = <<>> THEN <<>>
  ELSE LET k == CHOOSE n \in 1..Len(buf) :
                  /\ \A j \in 1..(n - 1) : buf[j] # 10
                  /\ (buf[n] = 10 \/ n = Len(buf))
       IN <<SubSeq(buf, 1, k)>> \o Lines(SubSeq(buf, k + 1, Len(buf)))

\* A line without its terminator.
Content(line) ==
  IF line # <<>> /\ line[Len(line)] = 10
  THEN SubSeq(line, 1, Len(line) - 1)
  ELSE line

IsSuffix(t, s) ==
  Len(t) <= Len(s) /\ SubSeq(s, Len(s) - Len(t) + 1, Len(s)) = t

StartsWith(s, p) == Len(p) <= Len(s) /\ SubSeq(s, 1, Len(p)) = p

\* The first thing recorded of a step: a frame received by dispatch, a line
\* sent by stdin_callback, or the loop being stopped.
StartsStep(e) == IsRecv(e) \/ IsStop(e) \/ IsSendOf(e, "TEXT")

\* t is P with its leading and trailing whitespace removed.
IsTrimOf(t, P) ==
  /\ t # <<>> => (t[1] \notin Whitespace /\ t[Len(t)] \notin Whitespace)
  /\ Len(t) <= Len(P)
  /\ \E i \in 0..(Len(P) - Len(t)) :
       /\ SubSeq(P, i + 1, i + Len(t)) = t
       /\ \A k \in 1..Len(P) : (k <= i \/ k > i + Len(t)) => P[k] \in Whitespace

\* An internal step of the driver: one that needs neither local input nor an
\* interrupt nor a new frame from the server.
InternalStep == Dispatch \/ CloseReturn

\* ------------------------------------------------------------------ claims

\* C1: a close frame received by dispatch is answered by exactly one close
\* frame, sent right after it is received; nothing is printed for it; the
\* dispatch loop then exits: the close frame stays the last frame received,
\* whatever frames are still pending, the loop is never back at receive(),
\* and while ws.close() is awaited its return ends the loop.
C1_CloseRepliedOnceThenExit ==
  \A i \in Idx : IsRecvOf(events[i], "CLOSE") =>
    /\ i < Len(events) /\ IsSendOf(events[i + 1], "CLOSE")
    /\ Count(LAMBDA e : IsSendOf(e, "CLOSE")) = 1
    /\ \A j \in Idx : j > i => ~IsRecv(events[j]) /\ ~IsPrint(events[j])
    /\ pc \in {"closing", "done"}
    /\ ~ENABLED Dispatch
    /\ (pc = "closing" /\ running) => ENABLED (CloseReturn /\ pc' = "done")

\* C1 witness: the close was answered, the loop has exited, and a
\* frame delivered after the close is still pending, never received.
C1_Witness ==
  /\ pc = "done"
  /\ inbound # <<>>
  /\ \E i \in Idx : IsRecvOf(events[i], "CLOSE")
  /\ Count(LAMBDA e : IsSendOf(e, "CLOSE")) = 1

\* C2: every ping received by dispatch is followed at once by one pong and by
\* nothing else (no print, no other frame), the loop is then back at
\* receive(), and the pongs sent never outnumber the pings received.
C2_PingAnsweredByOnePong ==
  /\ \A i \in Idx : IsRecvOf(events[i], "PING") =>
       /\ i < Len(events) /\ IsSendOf(events[i + 1], "PONG")
       /\ (i + 1 = Len(events)) => pc = "recv"
       /\ (i + 2 <= Len(events)) => StartsStep(events[i + 2])
  /\ \A i \in Idx : IsSendOf(events[i], "PONG") =>
       i > 1 /\ IsRecvOf(events[i - 1], "PING")
  /\ Count(LAMBDA e : IsSendOf(e, "PONG")) <= Count(LAMBDA e : IsRecvOf(e, "PING"))

\* C2 witness: two pings were received and answered, and the loop went on.
C2_Witness ==
  /\ Count(LAMBDA e : IsRecvOf(e, "PING")) = 2
  /\ Count(LAMBDA e : IsSendOf(e, "PONG")) = 2
  /\ pc = "recv"

\* C3: once stdin_callback has read end-of-stream and stopped the loop, the
\* driver is halted and nothing more is done: no text, pong or close frame is
\* sent afterwards, whatever frames are pending.
C3_NothingSentAfterEof ==
  \A i \in Idx : IsStopBy(events[i], "eof") =>
    /\ i = Len(events)
    /\ ~running
    /\ ~ENABLED Next

\* C3 witness: the loop was stopped by end-of-stream while a ping and a close
\* frame were pending for dispatch.
C3_Witness ==
  /\ events # <<>> /\ IsStopBy(events[Len(events)], "eof")
  /\ Len(inbound) = 2
  /\ inbound[1].type = "PING"
  /\ inbound[2].type = "CLOSE"

\* The lines stdin_callback has read so far.
LinesRead == Lines(consumed)

\* C4 as stated: one text frame per line read, its payload the name, ': '
\* and the line with nothing after it (the line taken without its
\* terminator, as in 'Alice: hello').
C4_Original ==
  LET sent == TextSent
      lines == LinesRead
  IN /\ Len(sent) = Len(lines)
     /\ \A i \in 1..Len(sent) :
          sent[i] = name \o Str_ColonSpace \o Decode(Content(lines[i]))

\* C4 amended: one text frame per line read, its payload the name, ': ' and
\* the line as readline() returned it, terminator included; a line that is
\* only a terminator is sent too, and the loop is stopped by end-of-stream
\* only when no byte is left.
C4_PayloadKeepsTerminator ==
  LET sent == TextSent
      lines == LinesRead
  IN /\ Len(sent) = Len(lines)
     /\ \A i \in 1..Len(sent) :
          /\ sent[i] = name \o Str_ColonSpace \o Decode(lines[i])
          /\ lines[i] = <<10>> => sent[i] = name \o <<":", " ", "\n">>
     /\ (\E i \in Idx : IsStopBy(events[i], "eof")) => stdin = <<>>

\* C4 witness: Alice typed hello and the terminator, and the frame sent is
\* 'Alice: hello' followed by the terminator.
C4_Witness ==
  /\ consumed = Bytes_hello \o <<10>>
  /\ TextSent = <<Str_Alice \o <<":", " ", "h", "e", "l", "l", "o", "\n">> >>

\* What a printed line holds after its first n characters.
After(line, n) == SubSeq(line, n + 1, Len(line))

\* C5 as stated: a text frame with payload P is followed at once by one
\* printed line, 'Text: ' immediately followed by trim(P).
C5_Original ==
  \A i \in Idx : IsRecvOf(events[i], "TEXT") =>
    /\ i < Len(events) /\ IsPrint(events[i + 1])
    /\ StartsWith(events[i + 1][2], Str_Text)
    /\ IsTrimOf(After(events[i + 1][2], Len(Str_Text)), events[i][2].data)

\* C5 amended: a text frame with payload P is followed at once by one printed
\* line: 'Text: ', the separating space print() puts between its arguments,
\* then trim(P).  Nothing else is printed or sent for it, and the loop is
\* back at receive().
C5_TextPrintedWithSeparator ==
  /\ \A i \in Idx : IsRecvOf(events[i], "TEXT") =>
       /\ i < Len(events) /\ IsPrint(events[i + 1])
       /\ StartsWith(events[i + 1][2], Str_Text \o <<" ">>)
       /\ IsTrimOf(After(events[i + 1][2], Len(Str_Text) + 1), events[i][2].data)
       /\ (i + 1 = Len(events)) => pc = "recv"
       /\ (i + 2 <= Len(events)) => StartsStep(events[i + 2])
  /\ Count(LAMBDA e : IsPrint(e) /\ StartsWith(e[2], Str_Text))
       = Count(LAMBDA e : IsRecvOf(e, "TEXT"))

\* C5 witness: the server sent '  hi there  ' and 'Text:  hi there' (two
\* spaces after the colon) was printed.
C5_Witness ==
  \E i \in Idx :
    /\ IsRecvOf(events[i], "TEXT")
    /\ events[i][2].data = Str_HiThere
    /\ i < Len(events)
    /\ events[i + 1] =
         Ev("print", <<"T", "e", "x", "t", ":", " ", " ", "h", "i", " ", "t", "h", "e", "r", "e">>)

NoFrameSent == \A i \in Idx : events[i][1] # "send"

\* C6 as stated: after a failed handshake there is no stdin watch, no frame
\* is ever sent, and the driver terminates: the loop has stopped, or the
\* driver still has a step of its own to take towards stopping it.
C6_Original ==
  pc = "failed" =>
    /\ ~watching
    /\ NoFrameSent
    /\ (~running \/ ENABLED InternalStep)

\* C7 as stated: once the dispatch loop has exited, the driver terminates
\* without further input or interrupt: the loop has stopped, or the driver
\* still has a step of its own to take towards stopping it.
C7_Original == pc = "done" => (~running \/ ENABLED InternalStep)

\* C7 amended: the loop stops on end-of-stream of the local input and on
\* SIGINT, and on nothing else: it is stopped exactly when the last thing
\* done was one of the two; while it runs, an interrupt stops it, and so does
\* the stdin watch once the input is exhausted.  The dispatch loop exiting
\* does not stop it.
C7_StopsOnlyOnEofOrSigint ==
  /\ ~running <=> (events # <<>> /\ IsStop(events[Len(events)]))
  /\ running => ENABLED (Sigint /\ ~running')
  /\ (running /\ watching /\ stdin = <<>>) => ENABLED (StdinCallback /\ ~running')

\* C7 witness: the dispatch loop exited, the loop kept running, and the end
\* of the local input then stopped it.
C7_Witness ==
  /\ pc = "done"
  /\ ~running
  /\ IsStopBy(events[Len(events)], "eof")

\* C8: dispatch receives the frames in the order the transport delivered
\* them, none skipped or repeated; the text frames are sent in the order the
\* lines were read, one per line, each ending with its line.
C8_BothStreamsInOrder ==
  LET sent == TextSent
      lines == LinesRead
  IN /\ Recvs \o inbound = delivered
     /\ Len(sent) = Len(lines)
     /\ \A i \in 1..Len(sent) : IsSuffix(Decode(lines[i]), sent[i])

\* C8 witness: two different lines were sent in the order read, one of them
\* between the handling of two inbound frames.
C8_Witness ==
  /\ Len(TextSent) = 2
  /\ TextSent[1] # TextSent[2]
  /\ \E i \in Idx : \E k \in Idx :
       /\ i + 1 < k
       /\ IsRecv(events[i])
       /\ IsRecv(events[k])
       /\ \E j \in (i + 1)..(k - 1) : IsSendOf(events[j], "TEXT")

\* C9 as stated: no line of local input is sent while the handling of an
\* inbound frame is under way, the await of ws.close() included.
C9_Original == [][pc = "closing" => TextSent' = TextSent]_vars

\* What dispatch does for a frame right after receiving it.
IsEffectOf(e, t) ==
  CASE t = "PING" -> IsSendOf(e, "PONG")
    [] t = "CLOSE" -> IsSendOf(e, "CLOSE")
    [] OTHER -> IsPrint(e)

\* C9 amended: for every frame kind, nothing comes between receiving the
\* frame and its print or reply (the close reply included); the handling is
\* then complete, except for a close frame, where dispatch may still be
\* awaiting ws.close(): lines of local input can be sent during that wait.
C9_NoSendBeforeReply ==
  /\ \A i \in Idx : (IsRecv(events[i]) /\ events[i][2].type # "CLOSED") =>
       i < Len(events) /\ IsEffectOf(events[i + 1], events[i][2].type)
  /\ pc = "closing" =>
       \E i \in Idx : IsRecvOf(events[i], "CLOSE") /\ IsSendOf(events[i + 1], "CLOSE")

\* C9 witness: the close reply was sent, and a line of local input was sent
\* while dispatch was still awaiting ws.close().
C9_Witness ==
  /\ pc = "closing"
  /\ Len(events) >= 3
  /\ IsRecvOf(events[Len(events) - 2], "CLOSE")
  /\ IsSendOf(events[Len(events) - 1], "CLOSE")
  /\ IsSendOf(events[Len(events)], "TEXT")

\* C10: after the dispatch loop has exited, and until the loop is stopped,
\* the stdin watch stays registered, and a readable line makes
\* stdin_callback send a text frame.
C10_WatchOutlivesDispatch ==
  (pc = "done" /\ running) =>
    /\ watching
    /\ ENABLED StdinCallback
    /\ stdin # <<>> =>
         ENABLED (StdinCallback /\ IsSendOf(events'[Len(events')], "TEXT") /\ running')

\* C10 witness: the session was reported closed, the dispatch loop exited,
\* and a line was sent after that.
C10_Witness ==
  /\ pc = "done"
  /\ Len(events) >= 2
  /\ IsRecvOf(events[Len(events) - 1], "CLOSED")
  /\ IsSendOf(events[Len(events)], "TEXT")

====
